---- MODULE Spec2Model ----
(***************************************************************************)
(* A model of compare_dataframes (src/data_val.py): the comparison of two  *)
(* tables that share an id column.                                         *)
(*                                                                         *)
(* Strings that the code sorts or compares (the results of str() and of    *)
(* astype(str)) are sequences of code points, so that Python's string      *)
(* order can be computed.  Column names are TLA+ strings: the code only    *)
(* puts them in sets and uses them as keys.                                *)
(*                                                                         *)
(* A cell value is a tagged value [tag, num, txt]:                         *)
(*   Null      NaN                                                         *)
(*   Integer   num is the integer (a natural number here)                  *)
(*   Float     num is the value in tenths (10 is 1.0, 15 is 1.5)           *)
(*   Text      txt is the string                                           *)
(*   Boolean   num is 0 or 1                                               *)
(* Lists the code builds by iterating over a Python set (list(a - b), the  *)
(* record differences) have an order Python does not fix; they are         *)
(* modelled by the set of their elements.  An id is identified up to       *)
(* Python equality (1 == 1.0), which is how the code's sets and its        *)
(* df[col] == id_val treat it.  Id cells are never Null: the inputs are    *)
(* tables whose rows all carry an id.                                      *)
(***************************************************************************)
EXTENDS Integers, Sequences, FiniteSets, TLC

VARIABLES df1, df2, pc, report, common_columns, record_differences, result

vars == <<df1, df2, pc, report, common_columns, record_differences, result>>

(* Bound on the input: the total number of rows of the two tables. *)
MaxRows == 3

unique_id_col == "id"

-----------------------------------------------------------------------------
(* Values *)

Null == [tag |-> "Null", num |-> 0, txt |-> <<>>]
Integer(n) == [tag |-> "Integer", num |-> n, txt |-> <<>>]
Float(tenths) == [tag |-> "Float", num |-> tenths, txt |-> <<>>]
Text(s) == [tag |-> "Text", num |-> 0, txt |-> s]
Boolean(b) == [tag |-> "Boolean", num |-> b, txt |-> <<>>]

(* str(n) of an int n >= 0: its decimal digits. *)
RECURSIVE IntStr(_)
IntStr(n) == IF n < 10 THEN <<48 + n>> ELSE IntStr(n \div 10) \o <<48 + (n % 10)>>

(* str(v): the canonical string of a cell value; str(NaN) is "nan". *)
Str(v) ==
    CASE v.tag = "Null" -> <<110, 97, 110>>
      [] v.tag = "Integer" -> IntStr(v.num)
      [] v.tag = "Float" -> IntStr(v.num \div 10) \o <<46>> \o IntStr(v.num % 10)
      [] v.tag = "Text" -> v.txt
      [] v.tag = "Boolean" -> IF v.num = 1 THEN <<84, 114, 117, 101>>
                                           ELSE <<70, 97, 108, 115, 101>>

(* Python's < on strings: lexicographic by code point, a proper prefix first. *)
RECURSIVE StrLess(_, _)
StrLess(s, t) ==
    IF t = <<>> THEN FALSE
    ELSE IF s = <<>> THEN TRUE
    ELSE IF Head(s) # Head(t) THEN Head(s) < Head(t)
    ELSE StrLess(Tail(s), Tail(t))

(* The class of a value under Python's == and hash: 1 == 1.0 == True, NaN  *)
(* equals nothing, a string equals the same string.                        *)
Key(v) ==
    CASE v.tag = "Integer" -> [kind |-> "num", num |-> 10 * v.num, txt |-> <<>>]
      [] v.tag = "Boolean" -> [kind |-> "num", num |-> 10 * v.num, txt |-> <<>>]
      [] v.tag = "Float" -> [kind |-> "num", num |-> v.num, txt |-> <<>>]
      [] v.tag = "Text" -> [kind |-> "str", num |-> 0, txt |-> v.txt]
      [] v.tag = "Null" -> [kind |-> "nan", num |-> 0, txt |-> <<>>]

-----------------------------------------------------------------------------
(* safe_sort: sorted(list(values), key=str).  The values are strings, any  *)
(* two of which compare, so the except branch is never taken.              *)

RECURSIVE safe_sort(_)
safe_sort(values) ==
    IF values = {} THEN <<>>
    ELSE LET m == CHOOSE x \in values : \A y \in values : y = x \/ StrLess(x, y)
         IN <<m>> \o safe_sort(values \ {m})

-----------------------------------------------------------------------------
(* Tables *)

ColumnOf(df, col) == [i \in 1..Len(df.rows) |-> df.rows[i][col]]

Range(s) == {s[i] : i \in 1..Len(s)}

(* df[col].astype(str).dropna().unique() as a set: astype(str) turns NaN   *)
(* into the string "nan" first, so dropna() finds nothing to drop.         *)
AsTypeStr(column) == [i \in 1..Len(column) |-> [isna |-> FALSE, s |-> Str(column[i])]]

DropNa(column) == {column[i].s : i \in {j \in 1..Len(column) : ~column[j].isna}}

StrValues(df, col) == DropNa(AsTypeStr(ColumnOf(df, col)))

(* set(df[unique_id_col]): the ids up to Python equality. *)
IdSet(df) == {Key(v) : v \in Range(ColumnOf(df, unique_id_col))}

(* df[df[unique_id_col] == id_val].iloc[0]: the first row, in row order,   *)
(* whose id equals id_val.                                                 *)
RepresentativeLast(df, id_val) ==
    LET hits == {i \in 1..Len(df.rows) : Key(df.rows[i][unique_id_col]) = id_val}
    IN df.rows[CHOOSE i \in hits : \A j \in hits : i >= j]

Representative(df, id_val) ==
    LET hits == {i \in 1..Len(df.rows) : Key(df.rows[i][unique_id_col]) = id_val}
    IN df.rows[CHOOSE i \in hits : \A j \in hits : i <= j]

-----------------------------------------------------------------------------
(* The steps of compare_dataframes *)

(* Lines 18-23: the counts; df[unique_id_col] raises KeyError(column) when *)
(* the table has no such column, df1 being read first.                     *)
KeyError(key) == [kind |-> "raise", exception |-> "KeyError", args |-> <<key>>]

CountsRaises(d1, d2) ==
    unique_id_col \notin d1.columns \/ unique_id_col \notin d2.columns

Counts(d1, d2) ==
    [df1_total_records |-> Len(d1.rows),
     df2_total_records |-> Len(d2.rows),
     df1_unique_ids |-> Cardinality(IdSet(d1)),
     df2_unique_ids |-> Cardinality(IdSet(d2))]

(* Line 36 *)
CommonColumns(d1, d2) == d1.columns \cap d2.columns

(* Lines 37: the columns whose values are compared. *)
ComparedColumns(d1, d2) == CommonColumns(d1, d2)

(* Lines 42-48: one entry of value_differences. *)
ValueDifference(col, values_df1, values_df2) ==
    [column |-> col,
     df1_values |-> safe_sort(values_df1),
     df2_values |-> safe_sort(values_df2),
     only_in_df1 |-> safe_sort(values_df1 \ values_df2),
     only_in_df2 |-> safe_sort(values_df2 \ values_df1)]

(* Lines 37-48 *)
ValueDifferences(d1, d2) ==
    {ValueDifference(col, StrValues(d1, col), StrValues(d2, col)) :
        col \in {c \in ComparedColumns(d1, d2) : StrValues(d1, c) # StrValues(d2, c)}}

ColumnsCopyPaste(d1, d2) ==
    [only_in_df1 |-> d1.columns \ d2.columns,
     only_in_df2 |-> d1.columns \ d2.columns,
     value_differences |-> ValueDifferences(d1, d2)]

(* Lines 26-48 *)
Columns(d1, d2) ==
    [only_in_df1 |-> d1.columns \ d2.columns,
     only_in_df2 |-> d2.columns \ d1.columns,
     value_differences |-> ValueDifferences(d1, d2)]

(* Line 51 *)
CommonIds(d1, d2) == IdSet(d1) \cap IdSet(d2)

DifferenceDf1Twice(id_val, col, val1, val2) ==
    [RecordID |-> id_val, Column |-> col, DF1Value |-> val1, DF2Value |-> val1]

(* Lines 60-63, 67-72: the record appended for a differing field; val1 and *)
(* val2 are the strings str(row1[col]) and str(row2[col]).                 *)
Difference(id_val, col, val1, val2) ==
    [RecordID |-> id_val, Column |-> col, DF1Value |-> val1, DF2Value |-> val2]

RecordDifferencesNoStr(d1, d2, columns) ==
    {Difference(id_val, col, Str(Representative(d1, id_val)[col]),
                             Str(Representative(d2, id_val)[col])) :
        <<id_val, col>> \in
            {p \in CommonIds(d1, d2) \X columns :
                Key(Representative(d1, p[1])[p[2]]) # Key(Representative(d2, p[1])[p[2]])}}

(* Lines 54-72 *)
RecordDifferences(d1, d2, columns) ==
    {Difference(id_val, col, Str(Representative(d1, id_val)[col]),
                             Str(Representative(d2, id_val)[col])) :
        <<id_val, col>> \in
            {p \in CommonIds(d1, d2) \X columns :
                Str(Representative(d1, p[1])[p[2]]) # Str(Representative(d2, p[1])[p[2]])}}

(* Lines 11-75: the call as a function of its arguments. *)
compare_dataframes(d1, d2) ==
    IF CountsRaises(d1, d2)
    THEN KeyError(unique_id_col)
    ELSE LET differences == RecordDifferences(d1, d2, CommonColumns(d1, d2))
         IN [kind |-> "return",
             report |-> [counts |-> Counts(d1, d2),
                         columns |-> Columns(d1, d2),
                         record_differences |-> differences],
             differences |-> differences]

-----------------------------------------------------------------------------
(* Inputs *)

AllColumns == {"id", "a", "b"}

ColumnSets == {{"id", "a"}, {"id", "a", "b"}, {"id", "b"}, {"a", "b"}}

ColumnValues(col) ==
    CASE col = "id" -> {Integer(1), Float(10), Integer(2)}
      [] col = "a" -> {Null, Integer(10), Text(<<49, 48>>)}
      [] col = "b" -> {Text(<<120>>)}

AllValues == UNION {ColumnValues(c) : c \in AllColumns}

Rows(columns) == {r \in [columns -> AllValues] : \A c \in columns : r[c] \in ColumnValues(c)}

Tables(columns, n) == {[columns |-> columns, rows |-> rows] : rows \in [1..n -> Rows(columns)]}

NoReport == [k \in {} |-> 0]

Init ==
    /\ \E c1 \in ColumnSets, c2 \in ColumnSets :
         \E n1 \in 0..MaxRows :
           \E n2 \in 0..(MaxRows - n1) :
             /\ df1 \in Tables(c1, n1)
             /\ df2 \in Tables(c2, n2)
    /\ pc = "start"
    /\ report = NoReport
    /\ common_columns = {}
    /\ record_differences = {}
    /\ result = [kind |-> "none"]

-----------------------------------------------------------------------------
(* Actions *)

(* Lines 15-23 *)
CountRecords ==
    /\ pc = "start"
    /\ IF CountsRaises(df1, df2)
       THEN /\ pc' = "raised"
            /\ result' = KeyError(unique_id_col)
            /\ UNCHANGED report
       ELSE /\ pc' = "counted"
            /\ report' = [counts |-> Counts(df1, df2)]
            /\ UNCHANGED result
    /\ UNCHANGED <<df1, df2, common_columns, record_differences>>

(* Lines 25-48 *)
CompareColumns ==
    /\ pc = "counted"
    /\ common_columns' = CommonColumns(df1, df2)
    /\ report' = report @@ [columns |-> Columns(df1, df2)]
    /\ pc' = "columns"
    /\ UNCHANGED <<df1, df2, record_differences, result>>

(* Lines 50-72 *)
CompareRecords ==
    /\ pc = "columns"
    /\ record_differences' = RecordDifferences(df1, df2, common_columns)
    /\ pc' = "records"
    /\ UNCHANGED <<df1, df2, report, common_columns, result>>

(* Lines 74-75 *)
Return ==
    /\ pc = "records"
    /\ report' = report @@ [record_differences |-> record_differences]
    /\ result' = [kind |-> "return",
                  report |-> report @@ [record_differences |-> record_differences],
                  differences |-> record_differences]
    /\ pc' = "returned"
    /\ UNCHANGED <<df1, df2, common_columns, record_differences>>

Next == CountRecords \/ CompareColumns \/ CompareRecords \/ Return

Spec == Init /\ [][Next]_vars

-----------------------------------------------------------------------------
(* Properties *)

HasReportColumns == pc \in {"columns", "records", "returned"}

HasDifferences == pc \in {"records", "returned"}

IdPresent == unique_id_col \in df1.columns /\ unique_id_col \in df2.columns

idsOld == IdSet(df1)

idsNew == IdSet(df2)

(* The non-Null canonical strings of a column. *)
NonNullStrings(df, col) ==
    {Str(v) : v \in {w \in Range(ColumnOf(df, col)) : w.tag # "Null"}}

IsAscending(seq) == \A i \in 1..(Len(seq) - 1) : StrLess(seq[i], seq[i + 1])

(* The unmatched records a report lists, if it lists any. *)
UnmatchedOf(rep) ==
    IF "unmatched_records" \in DOMAIN rep THEN rep.unmatched_records ELSE {}

SwapStatus(unmatched) ==
    {<<u[1], IF u[2] = "MissingInNew" THEN "MissingInOld" ELSE "MissingInNew">> :
        u \in unmatched}

SwapValues(differences) ==
    {[RecordID |-> d.RecordID, Column |-> d.Column,
      DF1Value |-> d.DF2Value, DF2Value |-> d.DF1Value] : d \in differences}

(* The rows of a table that are the first, in row order, with their id. *)
RECURSIVE FirstRows(_, _)
FirstRows(rows, seen) ==
    IF rows = <<>> THEN <<>>
    ELSE IF Key(Head(rows)[unique_id_col]) \in seen
         THEN FirstRows(Tail(rows), seen)
         ELSE <<Head(rows)>> \o
              FirstRows(Tail(rows), seen \cup {Key(Head(rows)[unique_id_col])})

FirstOccurrences(df) == [columns |-> df.columns, rows |-> FirstRows(df.rows, {})]

HasDuplicateIds(df) == Cardinality(IdSet(df)) < Len(df.rows)

(* The actions compute what the call computes. *)
StepsAgreeWithCall ==
    pc \in {"raised", "returned"} => result = compare_dataframes(df1, df2)

(* C1: every id of idsOld \cup idsNew is in exactly one of idsInBoth,      *)
(* idsOnlyInOld and idsOnlyInNew, and the returned report's unmatched      *)
(* records are the ids only in Old with MissingInNew and the ids only in   *)
(* New with MissingInOld.                                                  *)
C1_UnmatchedRecordsReported ==
    pc = "returned" =>
        /\ \A id \in idsOld \cup idsNew :
             Cardinality({k \in {"both", "old", "new"} :
                 \/ k = "both" /\ id \in CommonIds(df1, df2)
                 \/ k = "old" /\ id \in idsOld \ idsNew
                 \/ k = "new" /\ id \in idsNew \ idsOld}) = 1
        /\ UnmatchedOf(result.report) =
             {<<id, "MissingInNew">> : id \in idsOld \ idsNew} \cup
             {<<id, "MissingInOld">> : id \in idsNew \ idsOld}

(* C2: for every id in both tables and every common column, a field        *)
(* mismatch for (id, column) is emitted exactly when the canonical strings *)
(* of the two representative rows' values differ; nothing is emitted for   *)
(* an id of one table only or for a column of one table only.              *)
C2_MismatchIffCanonicalStringsDiffer ==
    HasDifferences =>
        /\ \A id \in idsOld \cap idsNew : \A col \in df1.columns \cap df2.columns :
             (\E d \in record_differences : d.RecordID = id /\ d.Column = col)
               <=> Str(Representative(df1, id)[col]) # Str(Representative(df2, id)[col])
        /\ \A d \in record_differences :
             /\ d.RecordID \in idsOld \cap idsNew
             /\ d.Column \in df1.columns \cap df2.columns
        /\ pc = "returned" => result.differences = record_differences

C2_Witness ==
    /\ pc = "returned"
    /\ idsOld \ idsNew # {}
    /\ \E d \in result.differences : d.Column = "a"

(* C3: for each common column, a value-set diff entry is emitted exactly   *)
(* when the sets of canonical strings of the non-Null values differ, its   *)
(* only_in lists are the two differences of these sets, in ascending       *)
(* order.                                                                  *)
C3_ValueSetsExcludeNull ==
    HasReportColumns =>
        \A col \in df1.columns \cap df2.columns :
            LET s1 == NonNullStrings(df1, col)
                s2 == NonNullStrings(df2, col)
                entries == {e \in report.columns.value_differences : e.column = col}
            IN /\ (entries # {}) <=> (s1 # s2)
               /\ \A e \in entries :
                    /\ Range(e.only_in_df1) = s1 \ s2
                    /\ Range(e.only_in_df2) = s2 \ s1
                    /\ IsAscending(e.only_in_df1)
                    /\ IsAscending(e.only_in_df2)

(* C4: no value-set diff entry and no field mismatch names the id column.  *)
C4_IdColumnNeverCompared ==
    /\ HasReportColumns =>
         \A e \in report.columns.value_differences : e.column # unique_id_col
    /\ HasDifferences =>
         \A d \in record_differences : d.Column # unique_id_col

(* C5: when the id column is absent from a table, the call raises before   *)
(* any comparison step, returns no report, and the error names the side or *)
(* sides that lack the column.                                             *)
C5_ErrorNamesMissingSides ==
    (~IdPresent /\ pc # "start") =>
        /\ pc = "raised"
        /\ result.kind = "raise"
        /\ report = NoReport /\ record_differences = {}
        /\ {side \in {"df1", "df2"} : side \in Range(result.args)} =
             {side \in {"df1", "df2"} :
                 \/ side = "df1" /\ unique_id_col \notin df1.columns
                 \/ side = "df2" /\ unique_id_col \notin df2.columns}

(* C6: with the id column in both tables the call never raises, and empty  *)
(* tables, disjoint id sets and disjoint column sets leave the diff        *)
(* sections they decide empty: no field mismatch without a common id, no   *)
(* value-set diff and no field mismatch without a common column to         *)
(* compare or without rows.                                                *)
C6_DegenerateInputsEmptyDiffs ==
    IdPresent =>
        /\ pc # "raised"
        /\ pc = "returned" =>
             /\ result.kind = "return"
             /\ DOMAIN result.report = {"counts", "columns", "record_differences"}
             /\ (df1.rows = <<>> /\ df2.rows = <<>>) =>
                  /\ result.report.columns.value_differences = {}
                  /\ result.report.record_differences = {}
             /\ (idsOld \cap idsNew = {}) => result.report.record_differences = {}
             /\ (df1.columns \cap df2.columns = {unique_id_col}) =>
                  /\ result.report.columns.value_differences = {}
                  /\ result.report.record_differences = {}

C8_FirstOccurrenceRepresents ==
    IdPresent =>
        /\ pc # "raised"
        /\ HasDifferences =>
             record_differences =
                 RecordDifferences(FirstOccurrences(df1), FirstOccurrences(df2),
                                   df1.columns \cap df2.columns)
        /\ pc = "returned" => result.differences = record_differences

C8_Witness ==
    /\ pc = "returned"
    /\ HasDuplicateIds(df1)
    /\ \E i, j \in 1..Len(df1.rows) :
         /\ i < j
         /\ Key(df1.rows[i].id) = Key(df1.rows[j].id)
         /\ "a" \in df1.columns /\ df1.rows[i].a # df1.rows[j].a
         /\ \E d \in result.differences :
              d.RecordID = Key(df1.rows[i].id) /\ d.Column = "a"

(* C9: the report lists the columns of Old that New lacks and the columns  *)
(* of New that Old lacks, and a column of one table only is the column of  *)
(* no field mismatch and of no value-set diff.                             *)
C9_ColumnsOfOneTableOnly ==
    HasReportColumns =>
        /\ report.columns.only_in_df1 = df1.columns \ df2.columns
        /\ report.columns.only_in_df2 = df2.columns \ df1.columns
        /\ \A e \in report.columns.value_differences :
             e.column \in df1.columns /\ e.column \in df2.columns
        /\ \A d \in record_differences :
             d.Column \in df1.columns /\ d.Column \in df2.columns

C9_Witness ==
    /\ pc = "returned"
    /\ "b" \in result.report.columns.only_in_df2
    /\ "b" \notin df1.columns
    /\ result.report.record_differences # {}
    /\ result.report.columns.value_differences # {}

(* C10: every emitted field mismatch carries the two typed values of the   *)
(* compared cells; a Python str is the typed value Text.  Stated for the   *)
(* columns other than the id column, which C4 keeps out of the mismatches. *)
C10_MismatchKeepsTypedValues ==
    HasDifferences =>
        \A d \in {e \in record_differences : e.Column # unique_id_col} :
            /\ Text(d.DF1Value) = Representative(df1, d.RecordID)[d.Column]
            /\ Text(d.DF2Value) = Representative(df2, d.RecordID)[d.Column]

====
